---- MODULE Spec2Model ----
(***************************************************************************)
(* A model of src/backend/function-node.js (gpu.js): the FunctionNode      *)
(* class.  One FunctionNode instance is modelled (variable unit) together  *)
(* with its parent's calledFunctionsArguments table and the free global   *)
(* typeMap that astVariableDeclaration reads.                              *)
(*                                                                         *)
(* Encoding of JavaScript values:                                          *)
(*   - null / undefined are the strings Null / Undefined where the other   *)
(*     values of the slot are strings, the record NullAst where they are   *)
(*     AST nodes, and the empty option None where they are arrays;         *)
(*   - an optional value (a settings property that may be absent, an       *)
(*     array-valued field that may be null) is None == <<>> or Some(v);    *)
(*   - a JavaScript string of emitted code is a sequence of tokens, so     *)
(*     that concatenation and join are sequence operations;                *)
(*   - an AST node is a record with a type field, as acorn produces.       *)
(***************************************************************************)
EXTENDS Integers, Sequences, FiniteSets, TLC

VARIABLES
    status,     \* "new" | "constructed" | "failed": outcome of the constructor
    ctorArgs,   \* the (source, settings) the constructor was called with
    unit,       \* the fields of the FunctionNode instance
    parent,     \* the parent FunctionNode's calledFunctionsArguments[unit.name]
    typeMap,    \* the global binding `typeMap` read at line 840
    last,       \* the last call made on the instance and its outcome
    log         \* history: toString() calls made, traversals run (retraversals: by a
                \* call made after one has returned) and strings returned; the
                \* strings issued for each internal variable name, in order

vars == <<status, ctorArgs, unit, parent, typeMap, last, log>>

----------------------------------------------------------------------------
(* JavaScript values *)

Null      == "null"
Undefined == "undefined"
None      == <<>>
Some(v)   == <<v>>
IsSome(o) == Len(o) = 1
Get(o)    == o[1]
NoError   == "none"

Has(r, f) == f \in DOMAIN r

(* Bind(e, F) is F(e) with e evaluated once: the value of a call is named  *)
(* and then used, as a local constant of the source is.                    *)
Bind(e, F(_)) == CHOOSE r \in {F(x) : x \in {e}} : TRUE

(* Bounds of the model *)
MaxStates == 2      \* depth of the traversal-state stack
MaxIssued == 3      \* issuances per internal variable name
MaxToString == 3    \* toString() calls on one instance
MaxCalls == 2       \* entries of the parent's calledFunctionsArguments[name]

----------------------------------------------------------------------------
(* AST nodes, as produced by the parser (ESTree) *)

NullAst == [type |-> "null"]
IsNullAst(a) == a.type = "null"

Lit(v)              == [type |-> "Literal", value |-> v]
Id(n)               == [type |-> "Identifier", name |-> n]
This                == [type |-> "ThisExpression"]
Member(o, p, c)     == [type |-> "MemberExpression", object |-> o, property |-> p, computed |-> c]
Call(f, args)       == [type |-> "CallExpression", callee |-> f, arguments |-> args]
Binary(op, l, r)    == [type |-> "BinaryExpression", operator |-> op, left |-> l, right |-> r]
Logical(op, l, r)   == [type |-> "LogicalExpression", operator |-> op, left |-> l, right |-> r]
Unary(op, a)        == [type |-> "UnaryExpression", operator |-> op, prefix |-> TRUE, argument |-> a]
Update(op, pre, a)  == [type |-> "UpdateExpression", operator |-> op, prefix |-> pre, argument |-> a]
Cond(t, c, a)       == [type |-> "ConditionalExpression", test |-> t, consequent |-> c, alternate |-> a]
SeqExpr(es)         == [type |-> "SequenceExpression", expressions |-> es]
ArrayExpr(es)       == [type |-> "ArrayExpression", elements |-> es]
Declarator(n, init) == [type |-> "VariableDeclarator", id |-> Id(n), init |-> init]
VarDecl(ds)         == [type |-> "VariableDeclaration", declarations |-> ds]
Return(a)           == [type |-> "ReturnStatement", argument |-> a]
Block(b)            == [type |-> "BlockStatement", body |-> b]
ExprStmt(e)         == [type |-> "ExpressionStatement", expression |-> e]
Break               == [type |-> "BreakStatement"]
Continue            == [type |-> "ContinueStatement"]
FunctionExpr(b)     == [type |-> "FunctionExpression", body |-> Block(b)]
FunctionDecl(b)     == [type |-> "FunctionDeclaration", body |-> Block(b)]

(* Literal values are written as their source text; Number.isInteger and   *)
(* the finiteness test of line 496 are decided on that text.               *)
IntegerLiterals == {"0", "1", "2"}
FiniteLiterals  == IntegerLiterals \cup {"1.5"}
NumberIsInteger(v) == v \in IntegerLiterals
IsFiniteNumber(v)  == v \in FiniteLiterals

----------------------------------------------------------------------------
(* Sources handed to the constructor.  A textual source carries what the   *)
(* helpers of ../utils and the parser compute from its text: whether it    *)
(* begins like a function, the name and argument names scanned from it,    *)
(* and the initializer acorn returns for `const parser_<name> = <text>;`.  *)

SrcMissing ==
    [kind |-> "missing", text |-> "", isFunctionString |-> FALSE,
     functionName |-> "", argumentNames |-> <<>>, ast |-> NullAst]
SrcNamed ==
    [kind |-> "string", text |-> "function foo(a, b) { var x = 1; return a[0] * x; }",
     isFunctionString |-> TRUE, functionName |-> "foo", argumentNames |-> <<"a", "b">>,
     ast |-> FunctionExpr(<<VarDecl(<<Declarator("x", Lit("1"))>>),
                            Return(Binary("*", Member(Id("a"), Lit("0"), TRUE), Id("x")))>>)]
SrcAnon ==
    [kind |-> "string", text |-> "function (a) { return a; }",
     isFunctionString |-> TRUE, functionName |-> "", argumentNames |-> <<"a">>,
     ast |-> FunctionExpr(<<Return(Id("a"))>>)]
SrcTernary ==
    [kind |-> "string", text |-> "function pick(a, b) { return a; } ? a++ : -b",
     isFunctionString |-> TRUE, functionName |-> "pick", argumentNames |-> <<"a", "b">>,
     ast |-> Cond(FunctionExpr(<<Return(Id("a"))>>), Update("++", FALSE, Id("a")), Unary("-", Id("b")))]
SrcNotFunction ==
    [kind |-> "string", text |-> "a + 1", isFunctionString |-> FALSE,
     functionName |-> "", argumentNames |-> <<>>, ast |-> Binary("+", Id("a"), Lit("1"))]
SrcObject ==
    [kind |-> "object", text |-> "", isFunctionString |-> FALSE,
     functionName |-> "", argumentNames |-> <<>>, ast |-> FunctionExpr(<<Return(Lit("1"))>>)]

isFunctionString(source)          == source.kind = "string" /\ source.isFunctionString
getFunctionNameFromString(source) == source.functionName
getArgumentNamesFromString(source) == source.argumentNames

Truthy(s) == s \notin {Null, Undefined, ""}

----------------------------------------------------------------------------
(* Settings: every property is optional (None when absent).                *)

SettingsKeys ==
    {"source", "name", "constants", "constantTypes", "isRootKernel", "isSubKernel",
     "debug", "output", "loopMaxIterations", "argumentNames", "argumentTypes",
     "argumentSizes", "returnType", "lookupReturnType", "onNestedFunction",
     "parent", "plugins"}

NoSettings == [k \in SettingsKeys |-> None]

EmptyMap == <<>>
Put(m, k, v) == [x \in (DOMAIN m) \cup {k} |-> IF x = k THEN v ELSE m[x]]

(* constructor, lines 23-45: the fields before the settings are applied *)
Defaults(source, settings) ==
    [source |-> source,
     name |-> IF source.kind = "string"
              THEN IF IsSome(settings.isRootKernel) /\ Get(settings.isRootKernel)
                   THEN "kernel"
                   ELSE IF IsSome(settings.name) /\ Truthy(Get(settings.name))
                        THEN Get(settings.name)
                        ELSE getFunctionNameFromString(source)
              ELSE Null,
     calledFunctions |-> <<>>,
     calledFunctionsArguments |-> EmptyMap,
     constants |-> EmptyMap,
     constantTypes |-> EmptyMap,
     isRootKernel |-> FALSE,
     isSubKernel |-> FALSE,
     parent |-> Null,
     debug |-> Null,
     declarations |-> EmptyMap,
     states |-> <<>>,
     lookupReturnType |-> Null,
     onNestedFunction |-> Null,
     loopMaxIterations |-> Null,
     argumentNames |-> IF source.kind = "string"
                       THEN Some(getArgumentNamesFromString(source)) ELSE None,
     argumentTypes |-> <<>>,
     argumentSizes |-> <<>>,
     returnType |-> Null,
     output |-> <<>>,
     plugins |-> Null,
     ast |-> None,
     _string |-> None,
     _internalVariableNames |-> EmptyMap]

(* constructor, lines 47-57: own properties of settings that name a field  *)
(* set above overwrite it; a falsy returnType becomes 'Number'.            *)
ApplySettings(u, settings) ==
    LET v == [f \in DOMAIN u |->
                 IF f \in SettingsKeys /\ IsSome(settings[f]) THEN Get(settings[f]) ELSE u[f]]
    IN  [v EXCEPT !.returnType = IF Truthy(v.returnType) THEN v.returnType ELSE "Number"]

(* validate without the comparison of argumentTypes with argumentNames *)
validateWithoutArity(u) ==
    IF u.source.kind # "string" THEN "this.source not a string"
    ELSE IF ~isFunctionString(u.source) THEN "this.source not a function string"
    ELSE IF ~Truthy(u.name) THEN "this.name could not be set"
    ELSE IF Len(u.output) < 1 THEN "this.output is not big enough"
    ELSE NoError

(* validate, lines 64-84: the message of the error thrown, or NoError *)
validate(u) ==
    IF u.source.kind # "string" THEN "this.source not a string"
    ELSE IF ~isFunctionString(u.source) THEN "this.source not a function string"
    ELSE IF ~Truthy(u.name) THEN "this.name could not be set"
    ELSE IF Len(u.argumentTypes) > 0 /\ ~IsSome(u.argumentNames)
         THEN "TypeError: Cannot read property 'length' of null"
    ELSE IF Len(u.argumentTypes) > 0 /\ Len(u.argumentTypes) # Len(Get(u.argumentNames))
         THEN "argumentTypes count exceeds argumentNames count"
    ELSE IF Len(u.output) < 1 THEN "this.output is not big enough"
    ELSE NoError

(* new FunctionNode(source, settings), lines 17-62 *)
New(source, settings) ==
    IF source.kind = "missing"
    THEN [error |-> "source parameter is missing", unit |-> Defaults(source, NoSettings)]
    ELSE LET u == ApplySettings(Defaults(source, settings), settings)
         IN  [error |-> validate(u), unit |-> u]

----------------------------------------------------------------------------
(* Arrays.  Indices are 1-based here and 0-based in the source; IndexOf    *)
(* returns 0 where indexOf returns -1.  An array slot never assigned reads *)
(* as undefined, and assigning past the end lengthens the array.           *)

IndexOf(arr, x) ==
    IF \E i \in 1..Len(arr) : arr[i] = x
    THEN CHOOSE i \in 1..Len(arr) : arr[i] = x /\ \A j \in 1..(i - 1) : arr[j] # x
    ELSE 0
ArrayGet(arr, i) == IF i \in 1..Len(arr) THEN arr[i] ELSE Undefined
ArraySet(arr, i, v) ==
    [k \in 1..(IF i > Len(arr) THEN i ELSE Len(arr)) |-> IF k = i THEN v ELSE ArrayGet(arr, k)]
Lookup(m, k) == IF k \in DOMAIN m THEN m[k] ELSE Undefined

(* The outcome of a method: the instance after it, the value returned and  *)
(* the error thrown (NoError when it returned).                            *)
Ret(u, v)      == [u |-> u, value |-> v, error |-> NoError]
Throw(u, e)    == [u |-> u, value |-> Undefined, error |-> e]
Threw(r)       == r.error # NoError

(* typeLookupMap, lines 1131-1142 *)
typeLookupMap ==
    [t \in {"Array", "Array(2)", "Array(3)", "Array(4)", "Array2D", "Array3D",
            "HTMLImage", "HTMLImageArray", "NumberTexture", "ArrayTexture(4)"} |->
        IF t \in {"HTMLImage", "HTMLImageArray", "ArrayTexture(4)"} THEN "Array(4)" ELSE "Number"]
TypeLookup(t) == Lookup(typeLookupMap, t)

(* An entry of parent.calledFunctionsArguments[name] is an array of        *)
(* bindings, each null or {name, type}.                                    *)
NullBinding      == [kind |-> "null", name |-> Null, type |-> Null]
Binding(n, t)    == [kind |-> "binding", name |-> n, type |-> t]

(* getVariableType, lines 210-218: the loop over the parent's entries from *)
(* entry i on, for the argument at argumentIndex.                          *)
RECURSIVE BackPropagate(_, _, _, _)
BackPropagate(u, entries, i, argumentIndex) ==
    IF i > Len(entries) THEN Ret(u, Null)
    ELSE IF argumentIndex > Len(entries[i])
         THEN Throw(u, "TypeError: Cannot read property 'type' of undefined")
    ELSE IF entries[i][argumentIndex].kind = "null"
         THEN BackPropagate(u, entries, i + 1, argumentIndex)
    ELSE LET type == entries[i][argumentIndex].type
         IN  Ret([u EXCEPT !.argumentTypes = ArraySet(@, argumentIndex, type)], type)

(* getVariableType, lines 198-226; table is parent.calledFunctionsArguments[this.name] *)
getVariableType(u, table, name) ==
    IF ~IsSome(u.argumentNames)
    THEN Throw(u, "TypeError: Cannot read property 'indexOf' of null")
    ELSE LET argumentIndex == IndexOf(Get(u.argumentNames), name) IN
         IF argumentIndex = 0
         THEN IF name \in DOMAIN u.declarations
              THEN Ret(u, u.declarations[name].type)
              ELSE Ret(u, Null)
         ELSE LET argumentType == ArrayGet(u.argumentTypes, argumentIndex) IN
              IF Truthy(argumentType) THEN Ret(u, argumentType)
              ELSE IF u.parent # Null
                   THEN IF ~IsSome(table)
                        THEN Throw(u, "TypeError: Cannot read property 'length' of undefined")
                        ELSE BackPropagate(u, Get(table), 1, argumentIndex)
                   ELSE Ret(u, Null)

(* getConstantType, lines 228-238 *)
getConstantType(u, constantName) ==
    IF Truthy(Lookup(u.constantTypes, constantName))
    THEN IF u.constantTypes[constantName] = "Float" THEN "Number"
         ELSE u.constantTypes[constantName]
    ELSE Null

(* isAstMathVariable, lines 415-432 *)
mathProperties == {"E", "PI", "SQRT2", "SQRT1_2", "LN2", "LN10", "LOG2E", "LOG10E"}
isAstMathVariable(ast) ==
    /\ ast.type = "MemberExpression"
    /\ ast.object.type = "Identifier"
    /\ ast.object.name = "Math"
    /\ ast.property.type = "Identifier"
    /\ ast.property.name \in mathProperties

(* isAstMathFunction, lines 434-466 *)
mathFunctions ==
    {"abs", "acos", "asin", "atan", "atan2", "ceil", "cos", "exp", "floor", "log",
     "log2", "max", "min", "pow", "random", "round", "sign", "sin", "sqrt", "tan"}
isAstMathFunction(ast) ==
    /\ ast.type = "CallExpression"
    /\ ast.callee.type = "MemberExpression"
    /\ ast.callee.object.type = "Identifier"
    /\ ast.callee.object.name = "Math"
    /\ ast.callee.property.type = "Identifier"
    /\ ast.callee.property.name \in mathFunctions

(* isAstVariable, lines 468-470 *)
isAstVariable(ast) == ast.type \in {"Identifier", "MemberExpression"}

(* getVariableSignature, lines 560-590: the loop from node ast inward.     *)
(* front holds the fragments unshifted so far, back those pushed.          *)
RECURSIVE SignatureLoop(_, _, _)
SignatureLoop(ast, front, back) ==
    LET inner == IF Has(ast, "object") THEN ast.object ELSE NullAst
        next(f, b) == IF IsNullAst(inner) THEN f \o b ELSE SignatureLoop(inner, f, b)
    IN  IF Has(ast, "computed") /\ ast.computed THEN next(front, back \o "[]")
        ELSE IF ast.type = "ThisExpression" THEN next("this" \o front, back)
        ELSE IF Has(ast, "property") /\ Has(ast.property, "name") /\ Truthy(ast.property.name)
             THEN IF ast.property.name \in {"x", "y", "z"} THEN next(".value" \o front, back)
                  ELSE IF ast.property.name \in {"constants", "thread", "output"}
                       THEN next("." \o ast.property.name \o front, back)
                       ELSE next(".value" \o front, back)
        ELSE IF Has(ast, "name") /\ Truthy(ast.name) THEN next("value" \o front, back)
        ELSE IF Has(ast, "callee") /\ Has(ast.callee, "name") /\ Truthy(ast.callee.name)
             THEN next("fn()" \o front, back)
        ELSE next("unknown" \o front, back)

(* getVariableSignature, lines 593-608 *)
allowedExpressions ==
    {"value", "value[]", "value[][]", "value[][][]", "value.value",
     "this.thread.value", "this.output.value", "this.constants.value",
     "this.constants.value[]", "this.constants.value[][]", "this.constants.value[][][]",
     "fn()[]", "fn()[][]", "fn()[][][]"}

(* getVariableSignature, lines 552-613: the signature, Null, or the error  *)
(* thrown for a node that is no variable.                                  *)
getVariableSignature(ast) ==
    IF ~isAstVariable(ast) THEN "Error: not a variable signature"
    ELSE IF ast.type = "Identifier" THEN "value"
    ELSE LET signatureString == SignatureLoop(ast, "", "")
         IN  IF signatureString \in allowedExpressions THEN signatureString ELSE Null

----------------------------------------------------------------------------
(* The type oracle.  The lookupReturnType callback of the settings is      *)
(* modelled by a fixed table of user functions.                            *)

lookupReturnTypeTable == [f \in {"helper", "pixel"} |-> IF f = "pixel" THEN "Array(4)" ELSE "Number"]
lookupReturnType(name) == Lookup(lookupReturnTypeTable, name)

(* typeLookupMap[type] || type, line 323, and typeLookupMap[...] applied   *)
(* to the outcome of a call that may have thrown.                          *)
LookupOr(t) == IF Truthy(TypeLookup(t)) THEN TypeLookup(t) ELSE t
(* typeLookupMap applied twice to the outcome of a call *)
PeelTwice(r0) ==
    Bind(r0, LAMBDA r : IF Threw(r) THEN r ELSE Ret(r.u, TypeLookup(TypeLookup(r.value))))
Peel(r0) == Bind(r0, LAMBDA r : IF Threw(r) THEN r ELSE Ret(r.u, TypeLookup(r.value)))

(* getType, lines 295-413.  An array argument (line 296) is handled by    *)
(* getTypeOfArray.                                                         *)
RECURSIVE getType(_, _, _)
getTypeOfArray(u, table, arr) ==
    IF Len(arr) = 0 THEN Throw(u, "TypeError: Cannot read property 'type' of undefined")
    ELSE getType(u, table, arr[Len(arr)])

(* getType, lines 361-405: the MemberExpression that is no math function *)
getTypeOfMember(u, table, ast) ==
    LET variableSignature == getVariableSignature(ast)
        unhandled == Throw(u, "Unhandled getType MemberExpression")
    IN  CASE variableSignature = "value[]" ->
                Peel(getVariableType(u, table, ast.object.name))
          [] variableSignature = "value[][]" ->
                Peel(getVariableType(u, table, ast.object.object.name))
          [] variableSignature = "value[][][]" ->
                Peel(getVariableType(u, table, ast.object.object.object.name))
          [] variableSignature \in {"this.thread.value", "this.output.value"} ->
                Ret(u, "Integer")
          [] variableSignature = "this.constants.value" ->
                Ret(u, getConstantType(u, ast.property.name))
          [] variableSignature = "this.constants.value[]" ->
                Ret(u, TypeLookup(getConstantType(u, ast.object.property.name)))
          [] variableSignature = "this.constants.value[][]" ->
                Ret(u, TypeLookup(getConstantType(u, ast.object.object.property.name)))
          [] variableSignature = "this.constants.value[][][]" ->
                Ret(u, TypeLookup(getConstantType(u, ast.object.object.object.property.name)))
          [] variableSignature \in {"fn()[]", "fn()[][]", "fn()[][][]"} ->
                Peel(getType(u, table, ast.object))
          [] variableSignature = "value.value" ->
                IF isAstMathVariable(ast) THEN Ret(u, "Number")
                ELSE IF ast.property.name \in {"r", "g", "b", "a"}
                     THEN Peel(getVariableType(u, table, ast.object.name))
                     ELSE unhandled
          [] OTHER -> unhandled

getType(u, table, ast) ==
    CASE ast.type = "null" -> Throw(u, "TypeError: Cannot read property 'type' of null")
      [] ast.type = "BlockStatement" -> getTypeOfArray(u, table, ast.body)
      [] ast.type = "ArrayExpression" -> Ret(u, "Array(" \o ToString(Len(ast.elements)) \o ")")
      [] ast.type = "Literal" ->
            IF NumberIsInteger(ast.value) THEN Ret(u, "LiteralInteger") ELSE Ret(u, "Number")
      [] ast.type = "CallExpression" ->
            IF isAstMathFunction(ast) THEN Ret(u, "Number")
            ELSE IF Has(ast.callee, "name") /\ Truthy(ast.callee.name) /\ u.lookupReturnType # Null
                 THEN Ret(u, lookupReturnType(ast.callee.name))
                 ELSE Ret(u, Null)
      [] ast.type = "BinaryExpression" ->
            IF ast.operator = "%" THEN Ret(u, "Number")
            ELSE IF ast.operator \in {">", "<"} THEN Ret(u, "Boolean")
            ELSE Bind(getType(u, table, ast.left),
                      LAMBDA r : IF Threw(r) THEN r ELSE Ret(r.u, LookupOr(r.value)))
      [] ast.type \in {"UpdateExpression", "UnaryExpression", "ReturnStatement"} ->
            getType(u, table, ast.argument)
      [] ast.type = "VariableDeclaration" ->
            IF Len(ast.declarations) = 0
            THEN Throw(u, "TypeError: Cannot read property 'type' of undefined")
            ELSE getType(u, table, ast.declarations[1])
      [] ast.type = "VariableDeclarator" -> getType(u, table, ast.id)
      [] ast.type = "Identifier" ->
            IF IsSome(u.argumentNames) /\ IndexOf(Get(u.argumentNames), ast.name) > 0
            THEN getVariableType(u, table, ast.name)
            ELSE IF ~IsSome(u.argumentNames)
                 THEN Throw(u, "TypeError: Cannot read property 'indexOf' of null")
            ELSE IF ast.name \in DOMAIN u.declarations THEN Ret(u, u.declarations[ast.name].type)
            ELSE IF ast.name = "Infinity" THEN Ret(u, "Integer")
            ELSE Ret(u, Null)
      [] ast.type = "MemberExpression" ->
            IF isAstMathFunction(ast)
            THEN IF ast.property.name \in {"ceil", "floor", "round"}
                 THEN Ret(u, "Integer") ELSE Ret(u, "Number")
            ELSE getTypeOfMember(u, table, ast)
      [] ast.type = "FunctionDeclaration" -> getType(u, table, ast.body)
      [] ast.type = "ConditionalExpression" -> getType(u, table, ast.consequent)
      [] OTHER -> Throw(u, "Unhandled getType Type")

----------------------------------------------------------------------------
(* The member-expression decomposer.  The descriptor returned carries the  *)
(* properties the source sets; those it leaves out are Undefined/NullAst.  *)

Details(signature, type, name, origin, property, x, y, z) ==
    [signature |-> signature, type |-> type, name |-> name, origin |-> origin,
     property |-> property, xProperty |-> x, yProperty |-> y, zProperty |-> z]

(* getMemberExpressionDetails, lines 1039-1108: the constants cases *)
ConstantDetails(u, signature, name, x, y, z) ==
    IF ~Truthy(getConstantType(u, name)) THEN Throw(u, "Constant has no type")
    ELSE Ret(u, Details(signature, getConstantType(u, name), name, "constants", Undefined, x, y, z))

(* getMemberExpressionDetails, lines 971-1009: the value[]... cases *)
UserDetails(u, table, signature, name, x, y, z) ==
    Bind(getVariableType(u, table, name),
         LAMBDA r : IF Threw(r) THEN r
                    ELSE Ret(r.u, Details(signature, r.value, name, "user", Undefined, x, y, z)))

(* getMemberExpressionDetails, lines 954-1117 *)
getMemberExpressionDetails(u, table, ast) ==
    IF ast.type # "MemberExpression" THEN Throw(u, "Expression not a MemberExpression")
    ELSE
    LET variableSignature == getVariableSignature(ast)
        unexpected == Throw(u, "Unexpected expression")
    IN  CASE variableSignature \in {"this.thread.value", "this.output.value"} ->
                Ret(u, Details(variableSignature, "Integer", ast.property.name, Undefined,
                               Undefined, NullAst, NullAst, NullAst))
          [] variableSignature = "value[]" ->
                UserDetails(u, table, variableSignature, ast.object.name,
                            ast.property, NullAst, NullAst)
          [] variableSignature = "value[][]" ->
                UserDetails(u, table, variableSignature, ast.object.object.name,
                            ast.property, ast.object.property, NullAst)
          [] variableSignature = "value[][][]" ->
                UserDetails(u, table, variableSignature, ast.object.object.object.name,
                            ast.property, ast.object.property, ast.object.object.property)
          [] variableSignature = "value.value" ->
                IF isAstMathVariable(ast)
                THEN Ret(u, Details(variableSignature, "Number", ast.property.name, "Math",
                                    Undefined, NullAst, NullAst, NullAst))
                ELSE IF ast.property.name \in {"r", "g", "b", "a"}
                     THEN Ret(u, Details(variableSignature, "Number", ast.object.name, "user",
                                         ast.property.name, NullAst, NullAst, NullAst))
                     ELSE unexpected
          [] variableSignature = "this.constants.value" ->
                ConstantDetails(u, variableSignature, ast.property.name,
                                NullAst, NullAst, NullAst)
          [] variableSignature = "this.constants.value[]" ->
                ConstantDetails(u, variableSignature, ast.object.property.name,
                                ast.property, NullAst, NullAst)
          [] variableSignature = "this.constants.value[][]" ->
                ConstantDetails(u, variableSignature, ast.object.object.property.name,
                                ast.property, ast.object.property, NullAst)
          [] variableSignature = "this.constants.value[][][]" ->
                ConstantDetails(u, variableSignature, ast.object.object.object.property.name,
                                ast.property, ast.object.property, ast.object.object.property)
          [] variableSignature = "fn()[]" ->
                Ret(u, Details(variableSignature, Undefined, Undefined, Undefined,
                               "node", NullAst, NullAst, NullAst))
          [] OTHER -> unexpected

----------------------------------------------------------------------------
(* The dependency analyzer.  What getDependencies returns is the           *)
(* accumulator array, null, or (for a member expression) the type string   *)
(* of the descriptor: a Deps value tells which, with the array's items.    *)

DepArray(items) == [kind |-> "array", items |-> items, text |-> ""]
DepNull         == [kind |-> "null", items |-> <<>>, text |-> ""]
DepOther(t)     == [kind |-> "other", items |-> <<>>, text |-> t]

Dependency(origin, name, value, isSafe) ==
    [origin |-> origin, name |-> name, value |-> value, isSafe |-> isSafe]

(* dependencies.every(dependency => dependency.isSafe) *)
EveryIsSafe(items) == \A k \in 1..Len(items) : items[k].isSafe

(* isSafeDependencies, lines 476-478 *)
isSafeDependencies(dependencies) ==
    IF dependencies.kind = "array" THEN EveryIsSafe(dependencies.items) ELSE TRUE

(* The outcome of getDependencies: the instance, the accumulator after the *)
(* call, the value returned, the error thrown.                             *)
DRet(u, acc, value) == [u |-> u, acc |-> acc, value |-> value, error |-> NoError]
DThrow(u, acc, e)   == [u |-> u, acc |-> acc, value |-> DepNull, error |-> e]

(* getDependencies, lines 480-550; acc is the dependencies array (created  *)
(* empty by the caller that passes none), isNotSafe is false when omitted. *)
RECURSIVE getDependencies(_, _, _, _, _)
RECURSIVE getDependenciesOfArray(_, _, _, _, _, _)
getDependenciesOfArray(u, table, arr, i, acc, isNotSafe) ==
    IF i > Len(arr) THEN DRet(u, acc, DepArray(acc))
    ELSE Bind(getDependencies(u, table, arr[i], acc, isNotSafe),
              LAMBDA r : IF Threw(r) THEN r
                         ELSE getDependenciesOfArray(r.u, table, arr, i + 1, r.acc, isNotSafe))

getDependencies(u, table, ast, acc, isNotSafe) ==
    CASE ast.type = "null" -> DRet(u, acc, DepNull)
      [] ast.type = "Literal" ->
            LET d == Dependency("literal", Undefined, ast.value,
                                IF isNotSafe THEN FALSE ELSE IsFiniteNumber(ast.value))
            IN  DRet(u, Append(acc, d), DepArray(Append(acc, d)))
      [] ast.type = "VariableDeclarator" -> getDependencies(u, table, ast.init, acc, isNotSafe)
      [] ast.type = "Identifier" ->
            IF ast.name \in DOMAIN u.declarations
            THEN LET d == Dependency("declaration", ast.name, Undefined,
                                     IF isNotSafe THEN FALSE
                                     ELSE isSafeDependencies(u.declarations[ast.name].dependencies))
                 IN  DRet(u, Append(acc, d), DepArray(Append(acc, d)))
            ELSE IF ~IsSome(u.argumentNames)
                 THEN DThrow(u, acc, "TypeError: Cannot read property 'indexOf' of null")
            ELSE IF IndexOf(Get(u.argumentNames), ast.name) > 0
                 THEN LET d == Dependency("argument", ast.name, Undefined, FALSE)
                      IN  DRet(u, Append(acc, d), DepArray(Append(acc, d)))
            ELSE DRet(u, acc, DepArray(acc))
      [] ast.type = "FunctionDeclaration" ->
            IF Len(ast.body.body) = 0 THEN DRet(u, acc, DepNull)
            ELSE getDependencies(u, table, ast.body.body[Len(ast.body.body)], acc, isNotSafe)
      [] ast.type = "ReturnStatement" -> getDependencies(u, table, ast.argument, acc, FALSE)
      [] ast.type = "BinaryExpression" ->
            LET flag == ast.operator \in {"/", "*"} IN
            Bind(getDependencies(u, table, ast.left, acc, flag),
                 LAMBDA l : IF Threw(l) THEN l
                            ELSE Bind(getDependencies(l.u, table, ast.right, l.acc, flag),
                                      LAMBDA r : IF Threw(r) THEN r
                                                 ELSE DRet(r.u, r.acc, DepArray(r.acc))))
      [] ast.type = "UpdateExpression" -> getDependencies(u, table, ast.argument, acc, isNotSafe)
      [] ast.type = "VariableDeclaration" ->
            getDependenciesOfArray(u, table, ast.declarations, 1, acc, isNotSafe)
      [] ast.type = "ArrayExpression" ->
            LET d == Dependency("declaration", Undefined, Undefined, TRUE)
            IN  DRet(u, Append(acc, d), DepArray(Append(acc, d)))
      [] ast.type = "CallExpression" ->
            LET d == Dependency("function", Undefined, Undefined, TRUE)
            IN  DRet(u, Append(acc, d), DepArray(Append(acc, d)))
      [] ast.type = "MemberExpression" ->
            Bind(getMemberExpressionDetails(u, table, ast),
                 LAMBDA details : IF Threw(details) THEN DThrow(details.u, acc, details.error)
                                  ELSE DRet(details.u, acc, DepOther(details.value.type)))
      [] OTHER -> DThrow(u, acc, "Unhandled type in getAllVariables")

----------------------------------------------------------------------------
(* The generic walker.  A walk threads a context: the instance, the output *)
(* buffer retArr (an array of strings), the calls made to the              *)
(* onNestedFunction hook, and the error thrown, after which nothing more   *)
(* is done.  tm is the global typeMap: None when the identifier is not     *)
(* bound, Some(map) otherwise.                                             *)

Ctx(u, retArr) == [u |-> u, retArr |-> retArr, nested |-> <<>>, error |-> NoError]
Push(c0, str)  == Bind(c0, LAMBDA c : IF Threw(c) THEN c ELSE [c EXCEPT !.retArr = Append(@, str)])
Fail(c0, e)    == Bind(c0, LAMBDA c : IF Threw(c) THEN c ELSE [c EXCEPT !.error = e])

(* retArr.push(retArr, ...) stores the array in itself; Array.prototype.join *)
(* renders an array met again during its own join as the empty string.      *)
SelfRef == "[Circular *retArr]"

RECURSIVE Join(_, _)
Join(arr, sep) ==
    IF Len(arr) = 0 THEN ""
    ELSE LET head == IF arr[1] = SelfRef THEN "" ELSE arr[1]
         IN  IF Len(arr) = 1 THEN head ELSE head \o sep \o Join(Tail(arr), sep)

(* get state, lines 114-116 *)
state(u) == ArrayGet(u.states, Len(u.states))

(* isState that looks for the label anywhere in the stack *)
isStateAnywhere(u, label) == \E i \in 1..Len(u.states) : u.states[i] = label

(* isState, lines 110-112 *)
isState(u, label) == state(u) = label

RECURSIVE astGeneric(_, _, _, _)
RECURSIVE astGenericArray(_, _, _, _, _)

(* astGeneric, lines 629-634: an array of nodes, from element i on *)
astGenericArray(c0, table, tm, arr, i) ==
    Bind(c0, LAMBDA c :
        IF Threw(c) \/ i > Len(arr) THEN c
        ELSE astGenericArray(astGeneric(c, table, tm, arr[i]), table, tm, arr, i + 1))

(* astConditionalExpression, lines 719-731 *)
astConditionalExpression(c, table, tm, ast) ==
    LET c1 == astGeneric(Push(c, "("), table, tm, ast.test)
        c2 == astGeneric(Push(c1, "?"), table, tm, ast.consequent)
        c3 == astGeneric(Push(c2, ":"), table, tm, ast.alternate)
    IN  Push(c3, ")")

(* astFunctionDeclaration, lines 738-747 *)
astFunctionDeclaration(c, table, tm, ast) ==
    IF c.u.onNestedFunction = Null THEN c
    ELSE Bind(getType(c.u, table, ast), LAMBDA r :
             IF Threw(r) THEN Fail([c EXCEPT !.u = r.u], r.error)
             ELSE [c EXCEPT !.u = r.u,
                            !.nested = Append(@, [ast |-> ast,
                                returnType |-> IF r.value = "LiteralInteger" THEN "Number"
                                               ELSE r.value])])

(* astExpressionStatement, lines 772-776 *)
astExpressionStatement(c, table, tm, esNode) ==
    Push(astGeneric(c, table, tm, esNode.expression), ";")

(* astVariableDeclarator, lines 876-883 *)
astVariableDeclarator(c, table, tm, iVarDecNode) ==
    LET c1 == astGeneric(c, table, tm, iVarDecNode.id)
    IN  IF ~IsNullAst(iVarDecNode.init)
        THEN astGeneric(Push(c1, "="), table, tm, iVarDecNode.init)
        ELSE c1

(* astSequenceExpression, lines 887-895: iterations i..n of the loop *)
RECURSIVE SequenceLoop(_, _, _, _, _)
SequenceLoop(c0, table, tm, sNode, i) ==
    Bind(c0, LAMBDA c :
        IF Threw(c) \/ i > Len(sNode.expressions) THEN c
        ELSE SequenceLoop(astGenericArray(IF i > 1 THEN Push(c, ",") ELSE c,
                                          table, tm, sNode.expressions, 1),
                          table, tm, sNode, i + 1))
astSequenceExpression(c, table, tm, sNode) == SequenceLoop(c, table, tm, sNode, 1)

(* astUnaryExpression, lines 902-912, and astUpdateExpression, lines 919-929 *)
astUnaryExpression(c, table, tm, uNode) ==
    IF uNode.prefix
    THEN astGeneric(Push(c, uNode.operator), table, tm, uNode.argument)
    ELSE Push(astGeneric(c, table, tm, uNode.argument), uNode.operator)
astUpdateExpression(c, table, tm, uNode) ==
    IF uNode.prefix
    THEN astGeneric(Push(c, uNode.operator), table, tm, uNode.argument)
    ELSE Push(astGeneric(c, table, tm, uNode.argument), uNode.operator)

(* astLogicalExpression, lines 936-943 *)
astLogicalExpression(c, table, tm, logNode) ==
    LET c1 == astGeneric(Push(c, "("), table, tm, logNode.left)
        c2 == astGeneric(Push(c1, logNode.operator), table, tm, logNode.right)
    IN  Push(c2, ")")

(* The frozen record stored in this.declarations, lines 845-849, 858-862 *)
DeclarationRecord(type, dependencies, isSafe) ==
    [type |-> type, dependencies |-> dependencies, isSafe |-> isSafe]

(* The text pushed for the first declarator before its initializer, line 850 *)
FirstDeclaratorPrefix(type, markupType, name) == type \o " user_" \o name \o "="

(* The safety flag of an added declarator computed as the first one's is *)
AddedDeclaratorIsSafeAsFirst(dependencies) == isSafeDependencies(dependencies)

(* The safety flag recorded for a declarator after the first, line 861 *)
AddedDeclaratorIsSafe(dependencies) == FALSE

(* astVariableDeclaration, lines 855-864: declarators i.. of the statement; *)
(* c.retArr is the local array result.                                      *)
RECURSIVE DeclaratorLoop(_, _, _, _, _, _)
DeclaratorLoop(c0, table, tm, declarations, i, type) ==
    Bind(c0, LAMBDA c :
        IF Threw(c) \/ i > Len(declarations) THEN c
        ELSE LET declaration == declarations[i] IN
             Bind(getDependencies(c.u, table, declaration, <<>>, FALSE), LAMBDA d :
                 IF Threw(d) THEN Fail([c EXCEPT !.u = d.u], d.error)
                 ELSE DeclaratorLoop(
                          astGeneric([c EXCEPT !.u = [d.u EXCEPT !.declarations =
                                          Put(@, declaration.id.name,
                                              DeclarationRecord(type, d.value,
                                                  AddedDeclaratorIsSafe(d.value)))]],
                                     table, tm, declaration),
                          table, tm, declarations, i + 1, type)))

(* astVariableDeclaration, lines 844-868: from the dependencies on, with  *)
(* the instance u and the type found by lines 835-843                      *)
DeclareAndEmit(c, u, table, tm, varDecNode, type) ==
    LET declarations == varDecNode.declarations
        firstDeclaration == declarations[1]
    IN  Bind(getDependencies(u, table, firstDeclaration.init, <<>>, FALSE), LAMBDA d :
        IF Threw(d) THEN Fail([c EXCEPT !.u = d.u], d.error)
        ELSE IF d.value.kind # "array"
             THEN Fail([c EXCEPT !.u = d.u], "TypeError: dependencies.every is not a function")
        ELSE
        Bind(astGeneric(
                [c EXCEPT !.u = [d.u EXCEPT !.declarations =
                                    Put(@, firstDeclaration.id.name,
                                        DeclarationRecord(type, d.value,
                                                          EveryIsSafe(d.value.items)))],
                          !.retArr = <<FirstDeclaratorPrefix(type, Get(tm)[type],
                                                             firstDeclaration.id.name)>>],
                table, tm, firstDeclaration.init), LAMBDA initResult :
        Bind(DeclaratorLoop([initResult EXCEPT !.retArr = <<Join(initResult.retArr, "")>>],
                            table, tm, declarations, 2, type), LAMBDA result :
        IF Threw(result) THEN [result EXCEPT !.retArr = c.retArr]
        ELSE [result EXCEPT !.retArr = c.retArr \o <<SelfRef, Join(result.retArr, ","), ";">>])))

(* astVariableDeclaration, lines 827-869 *)
astVariableDeclaration(c, table, tm, varDecNode) ==
    LET declarations == varDecNode.declarations IN
    IF Len(declarations) = 0 \/ IsNullAst(declarations[1].init)
    THEN Fail(c, "Unexpected expression")
    ELSE
    Bind(IF isState(c.u, "in-for-loop-init") THEN Ret(c.u, "Integer")
         ELSE getType(c.u, table, declarations[1].init), LAMBDA t :
    LET type == IF t.value = "LiteralInteger" THEN "Number" ELSE t.value
        c1 == [c EXCEPT !.u = t.u]
    IN  IF Threw(t) THEN Fail(c1, t.error)
        ELSE IF ~IsSome(tm) THEN Fail(c1, "ReferenceError: typeMap is not defined")
        ELSE IF ~Truthy(Lookup(Get(tm), type)) THEN Fail(c1, "Markup type undefined not handled")
        ELSE DeclareAndEmit(c, t.u, table, tm, varDecNode, type))

(* The handlers that return retArr untouched, lines 715-717, 748-765,      *)
(* 783-791, 812-820, 884-886, 944-952                                      *)
EmptyHandlers ==
    {"FunctionExpression", "ReturnStatement", "Literal", "BinaryExpression", "Identifier",
     "AssignmentExpression", "EmptyStatement", "BlockStatement", "IfStatement",
     "ForStatement", "WhileStatement", "DoWhileStatement", "ThisExpression",
     "MemberExpression", "CallExpression", "ArrayExpression", "DebuggerStatement"}

(* astGeneric, lines 625-697 *)
astGeneric(c0, table, tm, ast) ==
    Bind(c0, LAMBDA c :
    IF Threw(c) THEN c
    ELSE CASE ast.type = "null" -> Fail(c, "NULL ast")
           [] ast.type = "FunctionDeclaration" -> astFunctionDeclaration(c, table, tm, ast)
           [] ast.type \in EmptyHandlers -> c
           [] ast.type = "ExpressionStatement" -> astExpressionStatement(c, table, tm, ast)
           [] ast.type = "BreakStatement" -> Push(c, "break;")
           [] ast.type = "ContinueStatement" -> Push(c, "continue;\n")
           [] ast.type = "VariableDeclaration" -> astVariableDeclaration(c, table, tm, ast)
           [] ast.type = "VariableDeclarator" -> astVariableDeclarator(c, table, tm, ast)
           [] ast.type = "SequenceExpression" -> astSequenceExpression(c, table, tm, ast)
           [] ast.type = "UnaryExpression" -> astUnaryExpression(c, table, tm, ast)
           [] ast.type = "UpdateExpression" -> astUpdateExpression(c, table, tm, ast)
           [] ast.type = "LogicalExpression" -> astLogicalExpression(c, table, tm, ast)
           [] ast.type = "ConditionalExpression" -> astConditionalExpression(c, table, tm, ast)
           [] OTHER -> Fail(c, "Unknown ast type"))

(* String.prototype.trim on a joined buffer: of the fragments the handlers *)
(* push, only 'continue;\n' ends in white space and none begins with it;   *)
(* the buffer is trimmed on its last fragment.                             *)
JoinTrim(arr) ==
    IF Len(arr) > 0 /\ arr[Len(arr)] = "continue;\n"
    THEN Join(SubSeq(arr, 1, Len(arr) - 1), "") \o "continue;"
    ELSE Join(arr, "")

----------------------------------------------------------------------------
(* The instance before the constructor has run, and the constructor call.  *)

NoCall == [op |-> "none"]
NoLog  == [calls |-> 0, traversals |-> 0, retraversals |-> 0, returned |-> <<>>, issued |-> <<>>]

Init ==
    /\ status = "new"
    /\ ctorArgs = [source |-> SrcMissing, settings |-> NoSettings]
    /\ unit = Defaults(SrcMissing, NoSettings)
    /\ parent = None
    /\ typeMap = None
    /\ last = NoCall
    /\ log = NoLog

(* Inputs of the constructor explored by the model *)
CtorSources == {SrcMissing, SrcNamed, SrcAnon, SrcTernary, SrcNotFunction, SrcObject}
CtorNames == {None, Some(""), Some("bar")}
CtorOutputs == {None, Some(<<>>), Some(<<1>>)}
CtorArgumentTypes == {None, Some(<<"Array">>), Some(<<"Array", "Number">>)}
CtorSettings ==
    { [NoSettings EXCEPT !.name = n, !.isRootKernel = r, !.output = o,
                         !.argumentTypes = t, !.source = s, !.parent = p] :
        n \in CtorNames, r \in {None, Some(TRUE)}, o \in CtorOutputs,
        t \in CtorArgumentTypes, s \in {None, Some(SrcNamed)},
        p \in {None, Some("parent")} }

ConstructWith(sources, settingsSet, tables, typeMaps) ==
    /\ status = "new"
    /\ \E source \in sources, settings \in settingsSet, table \in tables, tm \in typeMaps :
          \E r \in {New(source, settings)} :
          /\ ctorArgs' = [source |-> source, settings |-> settings]
          /\ status' = IF r.error = NoError THEN "constructed" ELSE "failed"
          /\ unit' = IF r.error = NoError THEN r.unit ELSE unit
          /\ parent' = IF r.error = NoError /\ r.unit.parent # Null THEN table ELSE None
          /\ typeMap' = tm
          /\ last' = [op |-> "new", threw |-> r.error # NoError, error |-> r.error]
    /\ UNCHANGED log

Construct == ConstructWith(CtorSources, CtorSettings, {None, Some(<<>>)}, {None})

----------------------------------------------------------------------------
(* Calls on a constructed instance: serialization and the cached string.   *)

(* getJsAST, lines 171-191: a constructed instance has a string source     *)
(* (validate), so the text is parsed and the initializer cached in ast.    *)
getJsAST(u) == Ret([u EXCEPT !.ast = Some(u.source.ast)], u.source.ast)

(* toString, line 263: the cached string is returned when it is truthy *)
HasCachedString(u) == IsSome(u._string) /\ Get(u._string) # ""

(* toString, lines 262-265 *)
toString(u, table, tm) ==
    IF HasCachedString(u) THEN Ret(u, Get(u._string))
    ELSE LET a == getJsAST(u) IN
         Bind(astGeneric(Ctx(a.u, <<>>), table, tm, a.value), LAMBDA c :
             IF Threw(c) THEN Throw(c.u, c.error)
             ELSE Ret([c.u EXCEPT !._string = Some(JoinTrim(c.retArr))], JoinTrim(c.retArr)))

CallToString ==
    /\ status = "constructed"
    /\ log.calls < MaxToString
    /\ \E r \in {toString(unit, parent, typeMap)} :
       /\ unit' = r.u
       /\ last' = [op |-> "toString", threw |-> Threw(r), value |-> r.value]
       /\ log' = [log EXCEPT
                    !.calls = @ + 1,
                    !.traversals = @ + (IF HasCachedString(unit) THEN 0 ELSE 1),
                    !.retraversals = @ + (IF ~HasCachedString(unit) /\ Len(log.returned) > 0
                                          THEN 1 ELSE 0),
                    !.returned = IF Threw(r) THEN @ ELSE Append(@, r.value)]
    /\ UNCHANGED <<status, ctorArgs, parent, typeMap>>

(* toJSON, lines 267-288: the settings of the payload *)
JSONKeys ==
    {"source", "name", "constants", "constantTypes", "isRootKernel", "isSubKernel",
     "debug", "output", "loopMaxIterations", "argumentNames", "argumentTypes",
     "argumentSizes", "returnType"}
toJSON(u) ==
    [ast |-> u.ast,
     settings |-> [k \in SettingsKeys |-> IF k \in JSONKeys THEN Some(u[k]) ELSE None]]

CallToJSON ==
    /\ status = "constructed"
    /\ last' = [op |-> "toJSON", threw |-> FALSE, value |-> toJSON(unit)]
    /\ UNCHANGED <<status, ctorArgs, unit, parent, typeMap, log>>

(* Argument names asked of getVariableType *)
VariableNames == {"a", "b", "x"}

CallGetVariableType ==
    /\ status = "constructed"
    /\ \E name \in VariableNames :
          \E r \in {getVariableType(unit, parent, name)} :
          /\ unit' = r.u
          /\ last' = [op |-> "getVariableType", name |-> name, threw |-> Threw(r),
                      value |-> r.value, before |-> unit.argumentTypes,
                      table |-> parent]
    /\ UNCHANGED <<status, ctorArgs, parent, typeMap, log>>

(* The parent records one more call of this function: an entry of bindings *)
(* is appended to parent.calledFunctionsArguments[this.name].              *)
CallEntries ==
    { <<Binding("p", "Array"), NullBinding>>,
      <<NullBinding, Binding("q", "Number")>>,
      <<Binding("img", "HTMLImage")>> }

ParentRecordsCall ==
    /\ status = "constructed"
    /\ unit.parent # Null
    /\ IsSome(parent)
    /\ Len(Get(parent)) < MaxCalls
    /\ \E entry \in CallEntries : parent' = Some(Append(Get(parent), entry))
    /\ UNCHANGED <<status, ctorArgs, unit, typeMap, last, log>>

----------------------------------------------------------------------------
(* The traversal-state stack and the walker called on a node.              *)

StateLabels == {"in-for-loop-init", "casting-to-float"}

(* pushState, lines 99-101 *)
pushState(u, label) == Ret([u EXCEPT !.states = Append(@, label)], Undefined)

(* popState that pops before it compares *)
popStatePopsFirst(u, label) ==
    IF state(u) # label THEN Throw([u EXCEPT !.states = SubSeq(@, 1, Len(@) - 1)], "Cannot popState")
    ELSE Ret([u EXCEPT !.states = SubSeq(@, 1, Len(@) - 1)], Undefined)

(* popState, lines 103-108 *)
popState(u, label) ==
    IF state(u) # label THEN Throw(u, "Cannot popState")
    ELSE Ret([u EXCEPT !.states = SubSeq(@, 1, Len(@) - 1)], Undefined)

PushState ==
    /\ status = "constructed"
    /\ Len(unit.states) < MaxStates
    /\ \E label \in StateLabels :
          \E r \in {pushState(unit, label)} :
          /\ unit' = r.u
          /\ last' = [op |-> "pushState", label |-> label, threw |-> Threw(r),
                      before |-> unit.states]
    /\ UNCHANGED <<status, ctorArgs, parent, typeMap, log>>

PopState ==
    /\ status = "constructed"
    /\ \E label \in StateLabels :
          \E r \in {popState(unit, label)} :
          /\ unit' = r.u
          /\ last' = [op |-> "popState", label |-> label, threw |-> Threw(r),
                      before |-> unit.states]
    /\ UNCHANGED <<status, ctorArgs, parent, typeMap, log>>

(* The typeMap a backend binds (the WebGL one), restricted to the types    *)
(* the samples below produce; Boolean has no entry in it.                  *)
WebGLTypeMap ==
    [t \in {"Number", "Integer", "Array", "Array(2)", "Array(4)"} |->
        CASE t = "Number" -> "float"
          [] t = "Array" -> "sampler2D"
          [] t = "Integer" -> "int"
          [] t = "Array(2)" -> "vec2"
          [] t = "Array(4)" -> "vec4"]

Index(o, i)  == Member(o, Lit(i), TRUE)
Dot(o, name) == Member(o, Id(name), FALSE)
MathCall(f, args) == Call(Member(Id("Math"), Id(f), FALSE), args)

(* Nodes handed to astGeneric *)
DeclarationSamples ==
    { VarDecl(<<Declarator("x", Lit("1"))>>),
      VarDecl(<<Declarator("x", Lit("1e999")), Declarator("y", Lit("2"))>>),
      VarDecl(<<Declarator("x", Id("a")), Declarator("y", NullAst)>>),
      VarDecl(<<Declarator("y", Binary("*", Id("x"), Lit("2")))>>),
      VarDecl(<<Declarator("x", Lit("2")), Declarator("y", Member(Id("a"), Lit("0"), TRUE))>>),
      VarDecl(<<Declarator("x", Member(Id("a"), Lit("0"), TRUE))>>),
      VarDecl(<<Declarator("x", Binary("<", Id("a"), Id("b")))>>),
      VarDecl(<<Declarator("x", NullAst)>>) }

SequenceSamples ==
    { SeqExpr(<<Update("++", FALSE, Id("a"))>>),
      SeqExpr(<<Update("++", FALSE, Id("a")), Update("--", TRUE, Id("b"))>>),
      SeqExpr(<<Update("++", FALSE, Id("a")), Unary("-", Id("b")), Unary("!", Id("a"))>>) }

StatementSamples ==
    { ExprStmt(Logical("&&", Id("a"), Unary("!", Id("b")))),
      Cond(Id("a"), Lit("1"), Lit("2")),
      Break, Continue, NullAst,
      FunctionDecl(<<Return(Lit("1"))>>),
      [type |-> "SwitchStatement"] }

WalkSamples == DeclarationSamples \cup SequenceSamples \cup StatementSamples

CallAstGeneric ==
    /\ status = "constructed"
    /\ \E ast \in WalkSamples :
          \E c \in {astGeneric(Ctx(unit, <<>>), parent, typeMap, ast)} :
          /\ unit' = c.u
          /\ last' = [op |-> "astGeneric", ast |-> ast, threw |-> Threw(c), error |-> c.error,
                      retArr |-> c.retArr, nested |-> c.nested,
                      before |-> [states |-> unit.states, declarations |-> unit.declarations]]
    /\ UNCHANGED <<status, ctorArgs, parent, typeMap, log>>

(* Nodes handed to getType *)
TypeSamples ==
    { MathCall(f, <<Lit("1.5")>>) : f \in mathFunctions }
    \cup { Return(MathCall("floor", <<Lit("1.5")>>)),
           FunctionDecl(<<Return(MathCall("floor", <<Lit("1.5")>>))>>),
           MathCall("hypot", <<Lit("1.5")>>),
           Member(Id("Math"), Id("floor"), FALSE),
           Member(Id("Math"), Id("PI"), FALSE),
           Call(Id("helper"), <<Lit("1")>>),
           Lit("1"), Lit("1.5"), Id("a"), Id("Infinity"),
           Member(Id("a"), Lit("0"), TRUE),
           Member(Member(This, Id("thread"), FALSE), Id("x"), FALSE),
           Binary("+", Id("a"), Lit("1")),
           Binary("<", Id("a"), Lit("1")),
           NullAst }

(* Indexed accesses handed to getType *)
IndexedSamples ==
    { Index(Id("a"), "0"),
      Index(Index(Id("a"), "0"), "1"),
      Index(Index(Index(Id("a"), "0"), "1"), "2"),
      Index(Index(Id("b"), "0"), "1"),
      Index(Index(Id("x"), "0"), "1") }

CallGetType ==
    /\ status = "constructed"
    /\ \E ast \in TypeSamples \cup IndexedSamples :
          \E r \in {getType(unit, parent, ast)} :
          /\ unit' = r.u
          /\ last' = [op |-> "getType", ast |-> ast, threw |-> Threw(r), error |-> r.error,
                      value |-> r.value]
    /\ UNCHANGED <<status, ctorArgs, parent, typeMap, log>>

(* Nodes handed to getVariableSignature *)
SignatureSamples ==
    { Id("a"),
      Index(Id("a"), "0"),
      Index(Index(Id("a"), "0"), "1"),
      Index(Index(Index(Id("a"), "0"), "1"), "2"),
      Index(Index(Index(Index(Id("a"), "0"), "1"), "2"), "0"),
      Member(Id("a"), Id("i"), TRUE),
      Dot(Id("a"), "b"),
      Dot(Index(Id("a"), "0"), "b"),
      Index(Dot(Id("a"), "b"), "0"),
      Dot(Dot(This, "thread"), "x"),
      Dot(Dot(This, "output"), "y"),
      Dot(This, "thread"),
      Dot(Dot(This, "constants"), "c"),
      Index(Dot(Dot(This, "constants"), "c"), "0"),
      Index(Index(Dot(Dot(This, "constants"), "c"), "0"), "1"),
      Dot(Index(Dot(This, "constants"), "0"), "c"),
      Dot(Dot(Index(This, "0"), "constants"), "c"),
      Index(Call(Id("fn"), <<>>), "0"),
      Index(Index(Call(Id("fn"), <<Lit("1")>>), "0"), "1"),
      Dot(Call(Id("fn"), <<>>), "b"),
      Index(Call(Dot(Id("a"), "f"), <<>>), "0"),
      Lit("1"),
      Call(Id("fn"), <<>>) }

CallGetVariableSignature ==
    /\ status = "constructed"
    /\ \E ast \in SignatureSamples :
          \E r \in {getVariableSignature(ast)} :
          last' = [op |-> "getVariableSignature", ast |-> ast,
                   threw |-> ~isAstVariable(ast), value |-> r]
    /\ UNCHANGED <<status, ctorArgs, unit, parent, typeMap, log>>

(* Nodes and accumulators handed to getDependencies *)
ArithmeticSamples ==
    { Lit("1.5"), Lit("1e999"), Id("x"), Id("a"), Id("unknown"),
      Binary("+", Lit("1"), Lit("1e999")),
      Binary("*", Lit("1"), Id("x")),
      Binary("/", Id("a"), Lit("2")),
      Binary("*", Binary("+", Id("x"), Lit("1")), Lit("2")),
      Binary("/", Lit("2"), Binary("-", Lit("1"), Id("x"))),
      Binary("-", Binary("*", Lit("1"), Id("x")), Lit("2")) }
DependencySamples ==
    ArithmeticSamples \cup
    { Index(Id("a"), "0"),
      Dot(Dot(This, "thread"), "x"),
      Dot(Dot(This, "constants"), "c"),
      Binary("+", Lit("1"), Index(Id("a"), "0")),
      Call(Id("helper"), <<Lit("1")>>),
      ArrayExpr(<<Lit("1"), Lit("2")>>),
      Update("++", FALSE, Id("x")),
      Return(Binary("+", Id("x"), Lit("1"))),
      VarDecl(<<Declarator("y", Lit("1")), Declarator("z", Id("x"))>>),
      FunctionDecl(<<Return(Lit("1"))>>),
      NullAst,
      Break }
Accumulators == { <<>>, <<Dependency("function", Undefined, Undefined, TRUE)>> }

CallGetDependencies ==
    /\ status = "constructed"
    /\ \E ast \in DependencySamples, acc \in Accumulators :
          \E r \in {getDependencies(unit, parent, ast, acc, FALSE)} :
          /\ unit' = r.u
          /\ last' = [op |-> "getDependencies", ast |-> ast, acc |-> acc, threw |-> Threw(r),
                      error |-> r.error, value |-> r.value, after |-> r.acc]
    /\ UNCHANGED <<status, ctorArgs, parent, typeMap, log>>

----------------------------------------------------------------------------
(* Internal variable names *)

InternalNames == {"i", "user_x", "index"}

(* getInternalVariableName that numbers the first issuance as well *)
getInternalVariableNameAlwaysNumbered(u, name) ==
    LET names == IF name \in DOMAIN u._internalVariableNames
                 THEN u._internalVariableNames
                 ELSE Put(u._internalVariableNames, name, 0)
        count == names[name] + 1
    IN  Ret([u EXCEPT !._internalVariableNames = Put(names, name, count)],
            name \o ToString(count))

(* getInternalVariableName, lines 1119-1128 *)
getInternalVariableName(u, name) ==
    LET names == IF name \in DOMAIN u._internalVariableNames
                 THEN u._internalVariableNames
                 ELSE Put(u._internalVariableNames, name, 0)
        count == names[name] + 1
    IN  Ret([u EXCEPT !._internalVariableNames = Put(names, name, count)],
            IF count = 1 THEN name ELSE name \o ToString(count))

CallGetInternalVariableName ==
    /\ status = "constructed"
    /\ \E name \in InternalNames :
          /\ name \in DOMAIN unit._internalVariableNames
                => unit._internalVariableNames[name] < MaxIssued
          /\ \E r \in {getInternalVariableName(unit, name)} :
                /\ unit' = r.u
                /\ last' = [op |-> "getInternalVariableName", name |-> name, threw |-> FALSE,
                            value |-> r.value, before |-> unit._internalVariableNames]
                /\ log' = [log EXCEPT !.issued =
                               Put(@, name, IF name \in DOMAIN @ THEN Append(@[name], r.value)
                                            ELSE <<r.value>>)]
    /\ UNCHANGED <<status, ctorArgs, parent, typeMap>>

----------------------------------------------------------------------------
(* Properties of the traversal-state stack (checked under SpecWalk)        *)

Top(stack) == IF Len(stack) = 0 THEN Undefined ELSE stack[Len(stack)]
Front(stack) == SubSeq(stack, 1, Len(stack) - 1)

(* C1: popState(label) with a label that is not the top of the stack (or   *)
(* on an empty stack) throws and leaves the stack as it was; with the top  *)
(* label it removes that top element and nothing else; pushState appends.  *)
C1_PopStateContract ==
    /\ last.op = "popState" =>
          IF Len(last.before) = 0 \/ Top(last.before) # last.label
          THEN last.threw /\ unit.states = last.before
          ELSE ~last.threw /\ unit.states = Front(last.before)
    /\ last.op = "pushState" =>
          ~last.threw /\ unit.states = Append(last.before, last.label)

(* A mismatched pop on a stack of two labels has thrown *)
C1_Witness ==
    /\ last.op = "popState"
    /\ last.threw
    /\ Len(last.before) = 2
    /\ Top(last.before) # last.label

----------------------------------------------------------------------------
(* Properties of the walker's handlers (checked under SpecWalk)            *)

WalkedDeclaration == last.op = "astGeneric" /\ last.ast.type = "VariableDeclaration"
WalkedSequence    == last.op = "astGeneric" /\ last.ast.type = "SequenceExpression"

(* The declarator at position i of the statement walked last has stored a  *)
(* record in this walk                                                     *)
Recorded(i) ==
    LET name == last.ast.declarations[i].id.name IN
    /\ name \in DOMAIN unit.declarations
    /\ \/ ~last.threw
       \/ name \notin DOMAIN last.before.declarations
       \/ unit.declarations[name] # last.before.declarations[name]

(* C4 as stated: every Declaration Record stored by the declaration        *)
(* handler, for the first declarator and for every additional one, has     *)
(* isSafe equal to the AND of the isSafe flags of its dependency records.  *)
C4_IsSafeIsConjunction ==
    \A name \in DOMAIN unit.declarations :
       unit.declarations[name].dependencies.kind = "array" =>
          unit.declarations[name].isSafe
             = EveryIsSafe(unit.declarations[name].dependencies.items)

(* C4 amended: the record stored for the first declarator of a statement   *)
(* has isSafe equal to the AND of the isSafe flags of its dependency       *)
(* records; the record stored for every additional declarator has isSafe   *)
(* false, whatever its dependencies are.                                   *)
C4_IsSafeFirstOnly ==
    WalkedDeclaration =>
       \A i \in 1..Len(last.ast.declarations) :
          Recorded(i) =>
             LET record == unit.declarations[last.ast.declarations[i].id.name] IN
             IF i = 1
             THEN /\ record.dependencies.kind = "array"
                  /\ record.isSafe = EveryIsSafe(record.dependencies.items)
             ELSE record.isSafe = FALSE

(* A statement of two declarators was walked; the second one's only        *)
(* dependency is safe and its record is not                                *)
C4_Witness ==
    /\ WalkedDeclaration
    /\ ~last.threw
    /\ Len(last.ast.declarations) = 2
    /\ LET record == unit.declarations[last.ast.declarations[2].id.name] IN
          /\ record.dependencies.kind = "array"
          /\ Len(record.dependencies.items) = 1
          /\ EveryIsSafe(record.dependencies.items)
          /\ ~record.isSafe

(* C8: a declaration initialized with an integer literal is recorded with  *)
(* type Integer when the top of the state stack is in-for-loop-init and    *)
(* with type Number when the top is anything else or the stack is empty;   *)
(* LiteralInteger is never the type of a stored record.                    *)
C8_ForLoopInitCoercion ==
    /\ \A name \in DOMAIN unit.declarations :
          unit.declarations[name].type # "LiteralInteger"
    /\ ( /\ WalkedDeclaration
         /\ ~last.threw
         /\ last.ast.declarations[1].init.type = "Literal"
         /\ NumberIsInteger(last.ast.declarations[1].init.value) )
       => unit.declarations[last.ast.declarations[1].id.name].type
             = IF Top(last.before.states) = "in-for-loop-init" THEN "Integer" ELSE "Number"

(* An integer-literal declaration was recorded as Number with              *)
(* in-for-loop-init below another label on the stack                       *)
C8_Witness ==
    /\ WalkedDeclaration
    /\ ~last.threw
    /\ last.ast.declarations[1].init.type = "Literal"
    /\ NumberIsInteger(last.ast.declarations[1].init.value)
    /\ last.before.states = <<"in-for-loop-init", "casting-to-float">>
    /\ unit.declarations[last.ast.declarations[1].id.name].type = "Number"

(* The fragments of each sub-expression walked once, commas in between *)
RECURSIVE EachOnce(_, _)
EachOnce(expressions, i) ==
    IF i > Len(expressions) THEN <<>>
    ELSE (IF i > 1 THEN <<",">> ELSE <<>>)
         \o astGeneric(Ctx(unit, <<>>), parent, typeMap, expressions[i]).retArr
         \o EachOnce(expressions, i + 1)

(* C9: for a sequence of n sub-expressions the sequence handler emits each *)
(* sub-expression once, in source order, with n-1 commas between them.     *)
C9_SequenceEmitsEachOnce ==
    (WalkedSequence /\ ~last.threw) =>
       last.retArr = EachOnce(last.ast.expressions, 1)

(* The text of the declarators after the first, each preceded by a comma *)
RECURSIVE AddedDeclaratorsText(_, _)
AddedDeclaratorsText(declarations, i) ==
    IF i > Len(declarations) THEN ""
    ELSE "," \o Join(astGeneric(Ctx(unit, <<>>), parent, typeMap, declarations[i]).retArr, "")
             \o AddedDeclaratorsText(declarations, i + 1)

(* C10: the declaration handler appends `<lowered-type> user_<name>=<init>`*)
(* for the first declarator, the lowered type being typeMap's image of the *)
(* inferred type, then the additional declarators comma-joined, then `;`,  *)
(* the text appearing once; with no typeMap entry for the inferred type it *)
(* raises a diagnostic and records nothing.                                *)
C10_DeclarationText ==
    (WalkedDeclaration /\ IsSome(typeMap)) =>
       IF last.threw
       THEN last.error = "Markup type undefined not handled"
               => unit.declarations = last.before.declarations
       ELSE LET first == last.ast.declarations[1]
                type  == unit.declarations[first.id.name].type
            IN  Join(last.retArr, "")
                   = Get(typeMap)[type] \o " user_" \o first.id.name \o "="
                     \o Join(astGeneric(Ctx(unit, <<>>), parent, typeMap, first.init).retArr, "")
                     \o AddedDeclaratorsText(last.ast.declarations, 2)
                     \o ";"

----------------------------------------------------------------------------
(* Properties of the type oracle (checked under SpecOracle)                *)

(* C7: getType of a call of Math.<f>, f a recognized intrinsic, is Integer *)
(* when f is ceil, floor or round and Number for every other f.            *)
C7_MathCallType ==
    (last.op = "getType" /\ isAstMathFunction(last.ast)) =>
       /\ ~last.threw
       /\ last.value = IF last.ast.callee.property.name \in {"ceil", "floor", "round"}
                       THEN "Integer" ELSE "Number"

(* The access shape of a chain, written in source order: an identifier is *)
(* value, a bracket is [], a property is .constants, .thread, .output or  *)
(* .value, a call of a named function is fn().                             *)
RECURSIVE Shape(_)
Shape(ast) ==
    CASE ast.type = "Identifier" -> "value"
      [] ast.type = "ThisExpression" -> "this"
      [] ast.type = "CallExpression" ->
            IF ast.callee.type = "Identifier" THEN "fn()" ELSE "unknown"
      [] ast.type = "MemberExpression" ->
            Shape(ast.object)
               \o (IF ast.computed THEN "[]"
                   ELSE IF ast.property.name \in {"constants", "thread", "output"}
                        THEN "." \o ast.property.name
                        ELSE ".value")
      [] OTHER -> "unknown"

(* C11: for an identifier or a member-expression chain, getVariableSignature *)
(* returns the allow-listed string of the chain's access shape when that     *)
(* shape is one of the 14 allow-listed ones, and null for every other chain. *)
C11_SignatureIsShape ==
    (last.op = "getVariableSignature" /\ isAstVariable(last.ast)) =>
       /\ last.value \in allowedExpressions \cup {Null}
       /\ last.value = IF Shape(last.ast) \in allowedExpressions
                       THEN Shape(last.ast) ELSE Null

(* The identifier at the base of a chain of brackets, and their number *)
RECURSIVE BaseOf(_)
BaseOf(ast) == IF ast.type = "MemberExpression" THEN BaseOf(ast.object) ELSE ast
RECURSIVE Brackets(_)
Brackets(ast) == IF ast.type = "MemberExpression" THEN 1 + Brackets(ast.object) ELSE 0

RECURSIVE LookupTimes(_, _)
LookupTimes(t, k) == IF k = 0 THEN t ELSE LookupTimes(TypeLookup(t), k - 1)

IndexedIdentifier(ast) ==
    /\ ast.type = "MemberExpression"
    /\ getVariableSignature(ast) \in {"value[]", "value[][]", "value[][][]"}

(* C13 as stated: for an indexed access with signature value[], value[][]  *)
(* or value[][][] the oracle applies the type-lookup map once per bracket  *)
(* to the base identifier's type.                                          *)
C13_PeelPerBracket ==
    (last.op = "getType" /\ IndexedIdentifier(last.ast) /\ ~last.threw) =>
       last.value = LookupTimes(getVariableType(unit, parent, BaseOf(last.ast).name).value,
                                Brackets(last.ast))

(* C13 amended: for an indexed access with signature value[], value[][] or *)
(* value[][][] the oracle applies the type-lookup map exactly once to the  *)
(* base identifier's type, whatever the number of brackets.                *)
C13_PeelOnce ==
    (last.op = "getType" /\ IndexedIdentifier(last.ast)) =>
       /\ ~last.threw
       /\ last.value = TypeLookup(getVariableType(unit, parent, BaseOf(last.ast).name).value)

(* An argument of type HTMLImageArray indexed twice was typed Array(4) *)
C13_Witness ==
    /\ last.op = "getType"
    /\ IndexedIdentifier(last.ast)
    /\ Brackets(last.ast) = 2
    /\ getVariableType(unit, parent, BaseOf(last.ast).name).value = "HTMLImageArray"
    /\ last.value = "Array(4)"

----------------------------------------------------------------------------
(* Properties of the dependency analysis (checked under SpecDependencies)  *)

(* The isSafe flags the literals, declared variables and arguments of an  *)
(* arithmetic expression are to get, in source order; under tells whether  *)
(* some enclosing binary expression is a * or a /.                         *)
RECURSIVE SafetyBeneath(_, _)
SafetyBeneath(ast, under) ==
    CASE ast.type = "BinaryExpression" ->
            SafetyBeneath(ast.left, under \/ ast.operator \in {"*", "/"})
               \o SafetyBeneath(ast.right, under \/ ast.operator \in {"*", "/"})
      [] ast.type = "Literal" ->
            << [origin |-> "literal", isSafe |-> ~under /\ IsFiniteNumber(ast.value)] >>
      [] ast.type = "Identifier" ->
            IF ast.name \in DOMAIN unit.declarations
            THEN << [origin |-> "declaration",
                     isSafe |-> ~under
                                 /\ isSafeDependencies(unit.declarations[ast.name].dependencies)] >>
            ELSE IF IndexOf(Get(unit.argumentNames), ast.name) > 0
                 THEN << [origin |-> "argument", isSafe |-> FALSE] >>
                 ELSE <<>>
      [] OTHER -> <<>>

Collected == SubSeq(last.after, Len(last.acc) + 1, Len(last.after))

(* C15: every literal and declaration dependency collected beneath a       *)
(* binary * or /, at any depth and through an intervening + or -, has      *)
(* isSafe false; an argument dependency has isSafe false; a literal        *)
(* outside any * or / is safe exactly when its value is finite.            *)
C15_UnsafeBeneathProduct ==
    (last.op = "getDependencies" /\ last.ast \in ArithmeticSamples) =>
       /\ ~last.threw
       /\ [k \in 1..Len(Collected) |->
              [origin |-> Collected[k].origin, isSafe |-> Collected[k].isSafe]]
          = SafetyBeneath(last.ast, FALSE)

DependencyOrigins == {"literal", "declaration", "argument", "function"}

(* C17: for every expression kind the analyzer accepts, a member           *)
(* expression included, a getDependencies(ast, deps) that returns gives    *)
(* back the accumulator: every record passed in is still there and every   *)
(* element is a dependency record with an origin and a boolean isSafe; so  *)
(* a declaration whose initializer is a member expression records a        *)
(* sequence of such records and does not fail on it.                       *)
C17_ReturnsAccumulator ==
    /\ (last.op = "getDependencies" /\ ~IsNullAst(last.ast) /\ ~last.threw) =>
          /\ last.value.kind = "array"
          /\ last.value.items = last.after
          /\ Len(last.after) >= Len(last.acc)
          /\ SubSeq(last.after, 1, Len(last.acc)) = last.acc
          /\ \A k \in 1..Len(last.after) :
                /\ last.after[k].origin \in DependencyOrigins
                /\ last.after[k].isSafe \in BOOLEAN
    /\ (WalkedDeclaration /\ last.ast.declarations[1].init.type = "MemberExpression") =>
          IF last.threw
          THEN last.error # "TypeError: dependencies.every is not a function"
          ELSE unit.declarations[last.ast.declarations[1].id.name].dependencies.kind = "array"

----------------------------------------------------------------------------
(* Properties of internal variable names (checked under SpecNames)         *)

(* C2: on one unit, whatever other names are asked for in between, the     *)
(* k-th call of getInternalVariableName(n) returns n when k = 1 and n      *)
(* followed by the decimal k when k >= 2; the counter of n is the number   *)
(* of calls made with n, a call raises it by one and leaves the other      *)
(* counters alone, and no two calls with the same n return the same string.*)
C2_InternalNamesInOrder ==
    status = "constructed" =>
      /\ DOMAIN log.issued = DOMAIN unit._internalVariableNames
      /\ \A n \in DOMAIN log.issued :
            /\ unit._internalVariableNames[n] = Len(log.issued[n])
            /\ \A k \in 1..Len(log.issued[n]) :
                  log.issued[n][k] = IF k = 1 THEN n ELSE n \o ToString(k)
            /\ \A j, k \in 1..Len(log.issued[n]) :
                  j # k => log.issued[n][j] # log.issued[n][k]
      /\ last.op = "getInternalVariableName" =>
            \A n \in DOMAIN unit._internalVariableNames :
               unit._internalVariableNames[n] =
                  (IF n \in DOMAIN last.before THEN last.before[n] ELSE 0)
                  + (IF n = last.name THEN 1 ELSE 0)

(* The third call for one name has returned, after calls for another name *)
C2_Witness ==
    /\ last.op = "getInternalVariableName"
    /\ last.value = last.name \o "3"
    /\ \E n \in DOMAIN log.issued : n # last.name /\ Len(log.issued[n]) >= 2

----------------------------------------------------------------------------
(* Properties of construction, toString and toJSON (checked under Spec)    *)

(* C3: once a toString() call has returned, every later call returns the   *)
(* same string without running the traversal again, the empty string       *)
(* included.                                                               *)
C3_ToStringCached ==
    /\ log.retraversals = 0
    /\ \A k \in 1..Len(log.returned) : log.returned[k] = log.returned[1]

(* Inputs of the constructor for which no name can be determined *)
NameUndetermined(source, settings) ==
    /\ ~(IsSome(settings.name) /\ Truthy(Get(settings.name)))
    /\ \/ source.kind # "string"
       \/ /\ ~(IsSome(settings.isRootKernel) /\ Get(settings.isRootKernel))
          /\ getFunctionNameFromString(source) = ""

(* Inputs of the constructor with a non-empty argumentTypes whose length   *)
(* is not the number of argument names of the source                       *)
ArityMismatch(source, settings) ==
    /\ IsSome(settings.argumentTypes)
    /\ Len(Get(settings.argumentTypes)) > 0
    /\ \/ source.kind # "string"
       \/ Len(Get(settings.argumentTypes)) # Len(getArgumentNamesFromString(source))

(* C5: the constructor either throws or leaves a unit whose name is        *)
(* non-empty, whose output has at least one element and whose              *)
(* argumentTypes is empty or as long as argumentNames; and it throws when  *)
(* the source is missing, no name can be determined, the output is absent  *)
(* or empty, or a non-empty argumentTypes differs in length from the       *)
(* argument names.                                                         *)
C5_ConstructionValidated ==
    last.op = "new" =>
      /\ ~last.threw =>
            /\ status = "constructed"
            /\ Truthy(unit.name)
            /\ Len(unit.output) >= 1
            /\ \/ Len(unit.argumentTypes) = 0
               \/ /\ IsSome(unit.argumentNames)
                  /\ Len(unit.argumentTypes) = Len(Get(unit.argumentNames))
      /\ last.threw => status = "failed"
      /\ ( \/ ctorArgs.source.kind = "missing"
           \/ NameUndetermined(ctorArgs.source, ctorArgs.settings)
           \/ ~IsSome(ctorArgs.settings.output)
           \/ Len(Get(ctorArgs.settings.output)) = 0
           \/ ArityMismatch(ctorArgs.source, ctorArgs.settings) )
         => last.threw

(* A unit has been constructed with two argument types for two arguments *)
C5_Witness ==
    /\ last.op = "new"
    /\ ~last.threw
    /\ Len(unit.argumentTypes) = 2
    /\ Len(Get(unit.argumentNames)) = 2

(* C6: in every state a constructed unit reaches, constructing a unit      *)
(* from toJSON().settings (its source taken from settings.source) succeeds *)
(* and gives a unit with the same serialized fields.                       *)
C6_RoundTrip ==
    last.op = "toJSON" =>
      LET settings == last.value.settings
          again    == New(Get(settings.source), settings)
      IN  /\ again.error = NoError
          /\ \A k \in JSONKeys : again.unit[k] = unit[k]

(* C12: a unit constructed from a pre-built AST object, with a name in the *)
(* settings and a non-empty output, is created without error, and getJsAST *)
(* on it returns that AST object.                                          *)
C12_AstSourceAccepted ==
    ( /\ last.op = "new"
      /\ ctorArgs.source.kind = "object"
      /\ ~IsSome(ctorArgs.settings.source)
      /\ IsSome(ctorArgs.settings.name) /\ Truthy(Get(ctorArgs.settings.name))
      /\ IsSome(ctorArgs.settings.output) /\ Len(Get(ctorArgs.settings.output)) >= 1
      /\ ~IsSome(ctorArgs.settings.argumentTypes) )
    => /\ ~last.threw
       /\ status = "constructed"
       /\ getJsAST(unit).value = ctorArgs.source.ast

(* The entries of the parent's table that bind the argument at index i *)
BindingEntries(entries, i) ==
    { j \in 1..Len(entries) : i <= Len(entries[j]) /\ entries[j][i].kind # "null" }
FirstOf(S) == CHOOSE j \in S : \A k \in S : j <= k

(* C14: getVariableType(name), for an argument whose argumentTypes slot is *)
(* empty on a unit with a parent, returns the type of the first entry of   *)
(* the parent's table that binds that positional index and stores it in    *)
(* that slot; entries with no binding there, absent or null, are skipped   *)
(* without error; no other slot changes; and a filled slot is returned as  *)
(* it is, whatever the parent's table holds by then.                       *)
C14_BackPropagation ==
    ( /\ last.op = "getVariableType"
      /\ IsSome(unit.argumentNames)
      /\ IndexOf(Get(unit.argumentNames), last.name) > 0 )
    => LET i == IndexOf(Get(unit.argumentNames), last.name) IN
       IF Truthy(ArrayGet(last.before, i))
       THEN /\ ~last.threw
            /\ last.value = last.before[i]
            /\ unit.argumentTypes = last.before
       ELSE (unit.parent # Null /\ IsSome(last.table)) =>
            LET bound == BindingEntries(Get(last.table), i) IN
            /\ ~last.threw
            /\ IF bound = {}
               THEN last.value = Null /\ unit.argumentTypes = last.before
               ELSE /\ last.value = Get(last.table)[FirstOf(bound)][i].type
                    /\ ArrayGet(unit.argumentTypes, i) = last.value
                    /\ \A k \in 1..Len(unit.argumentTypes) :
                          k # i => ArrayGet(unit.argumentTypes, k) = ArrayGet(last.before, k)

(* C16: for a textual source the name of the constructed unit is `kernel`  *)
(* whenever isRootKernel is set in the settings, whatever settings.name    *)
(* is; otherwise settings.name when provided; otherwise the name scanned   *)
(* from the function text.                                                 *)
C16_NamePrecedence ==
    (status = "constructed" /\ ctorArgs.source.kind = "string") =>
       unit.name =
          IF IsSome(ctorArgs.settings.isRootKernel) /\ Get(ctorArgs.settings.isRootKernel)
          THEN "kernel"
          ELSE IF IsSome(ctorArgs.settings.name)
               THEN Get(ctorArgs.settings.name)
               ELSE getFunctionNameFromString(ctorArgs.source)

----------------------------------------------------------------------------
(* Specifications.  Spec is the life of an instance from the constructor   *)
(* on; SpecWalk, SpecOracle and SpecNames construct an instance from a     *)
(* textual source and exercise the walker with its state stack, the type   *)
(* oracle, and the internal-variable-name counter.                         *)

WalkSettings ==
    { [NoSettings EXCEPT !.output = Some(<<1>>), !.argumentTypes = Some(<<"Array", "Number">>),
                         !.lookupReturnType = Some("callback"),
                         !.onNestedFunction = Some("callback")],
      [NoSettings EXCEPT !.output = Some(<<1>>)] }

ConstructForWalk == ConstructWith({SrcNamed}, WalkSettings, {None}, {None, Some(WebGLTypeMap)})

(* Units whose arguments are images and matrices, for the type oracle *)
OracleSettings ==
    { [NoSettings EXCEPT !.output = Some(<<1>>),
                         !.argumentTypes = Some(<<"HTMLImageArray", "Array2D">>)],
      [NoSettings EXCEPT !.output = Some(<<1>>),
                         !.argumentTypes = Some(<<"Array3D", "HTMLImage">>)] }

ConstructForOracle == ConstructWith({SrcNamed}, OracleSettings, {None}, {None})

Next ==
    \/ Construct
    \/ CallToString
    \/ CallToJSON
    \/ CallGetVariableType
    \/ ParentRecordsCall

Spec == Init /\ [][Next]_vars

NextWalk ==
    \/ ConstructForWalk
    \/ PushState
    \/ PopState
    \/ CallAstGeneric

SpecWalk == Init /\ [][NextWalk]_vars

NextOracle ==
    \/ ConstructForWalk
    \/ ConstructForOracle
    \/ CallGetType
    \/ CallGetVariableSignature

SpecOracle == Init /\ [][NextOracle]_vars

NextDependencies ==
    \/ ConstructForWalk
    \/ CallAstGeneric
    \/ CallGetDependencies

SpecDependencies == Init /\ [][NextDependencies]_vars

NextNames ==
    \/ ConstructForWalk
    \/ CallGetInternalVariableName

SpecNames == Init /\ [][NextNames]_vars

====
